---- MODULE Spec2Model ----
(***************************************************************************)
(* State-machine model of the two price trackers of 07-标的追踪:            *)
(*   AutoStockTracker (auto_stock_tracker.py) and                          *)
(*   StockTracker     (每日价格追踪.py).                                    *)
(*                                                                         *)
(* Units.  A price is an integer number of cents (the code keeps prices    *)
(* rounded to 2 decimals).  change_pct is an integer number of hundredths  *)
(* of a percent (round(x, 2)).  distance is an integer number of tenths of *)
(* a percent (round(x, 1)).  target_drop is a whole percent.  A date is    *)
(* the ordinal of a 'YYYY-MM-DD' string; the code only compares dates for  *)
(* equality, and the order of the strings is the order of the ordinals.    *)
(*                                                                         *)
(* Rounding.  Python's round() of a float decides an exact decimal tie by  *)
(* the binary representation of the operand, so a tie is modelled as a     *)
(* choice between the two neighbours; every other value rounds to the      *)
(* nearest neighbour.                                                      *)
(***************************************************************************)
EXTENDS Integers, Sequences, FiniteSets, TLC

VARIABLES
    tracker,      \* which class is instantiated: "auto" or "manual"
    data,         \* self.data: code -> record
    file,         \* the store file self.data_file
    result,       \* what the most recent call returned or raised
    call,         \* the most recent add_price call and what it met
    pc,           \* position of the run_daily process
    idx,          \* loop index of the batch / of the writer
    clock,        \* the wall clock's date
    today,        \* the local variable today of update_all_prices
    fetched,      \* this cycle's fetch_price results, per code
    cycle_start   \* self.data as it was when the cycle started

vars == <<tracker, data, file, result, call, pc, idx, clock, today, fetched, cycle_start>>

-----------------------------------------------------------------------------
(* Bounds of the model *)

MaxDate == 2
MaxObs == 3
MaxBase == 110

-----------------------------------------------------------------------------
(* Configuration *)

None == -1

\* Two of the sixteen entries of STOCKS, in their dictionary order.
STOCKS ==
    [c \in {"1398.HK", "0882.HK"} |->
        IF c = "1398.HK"
        THEN [name |-> "GongShangYinHang", target_drop |-> 10, category |-> "NeiYinGu"]
        ELSE [name |-> "TianJinFaZhan", target_drop |-> 5, category |-> "YanDiGu"]]

StockOrder == <<"1398.HK", "0882.HK">>

\* A code that is no key of STOCKS.
UnknownCode == "9999.HK"

Codes == DOMAIN STOCKS \cup {UnknownCode}

\* The codes a caller hands to add_price.
CallCodes == {"1398.HK", UnknownCode}

\* The order in which a report walks self.data.items(): the order of STOCKS for
\* the seeded store; StockTracker's insertion order is taken to be the same, the
\* order of the rows being no part of any property below.
ItemOrder == StockOrder \o <<UnknownCode>>

DefaultTargetDrop == 10

Dates == 1..MaxDate

\* Prices handed to add_price by a caller, in cents.
Prices == {100, 89, 91}

\* The same with the one non-positive price add_price does not reject.
AnyPrices == Prices \cup {0}

\* Prices fetch_price returns when the provider answers, in cents.
FetchPrices == {100, 89}

-----------------------------------------------------------------------------
(* Rounding *)

\* The integers round(num/den) can be, for den > 0.
Round(num, den) ==
    LET q == num \div den
        r == num % den
    IN  IF 2 * r < den THEN {q}
        ELSE IF 2 * r > den THEN {q + 1}
        ELSE {q, q + 1}

-----------------------------------------------------------------------------
(* Records *)

Obs(date, price, change_pct) ==
    [date |-> date, price |-> price, change_pct |-> change_pct]

EmptyData == [c \in {} |-> 0]

\* load_data without a store file: one empty record per entry of STOCKS.
SeedData ==
    [c \in DOMAIN STOCKS |->
        [name |-> STOCKS[c].name, category |-> STOCKS[c].category,
         target_drop |-> STOCKS[c].target_drop, base_price |-> None, prices |-> <<>>]]

\* The record StockTracker.add_price creates for a code it has not seen.
NewRecord(code, price) ==
    [name |-> IF code \in DOMAIN STOCKS THEN STOCKS[code].name ELSE "Unknown",
     category |-> IF code \in DOMAIN STOCKS THEN STOCKS[code].category ELSE "Unknown",
     target_drop |-> IF code \in DOMAIN STOCKS THEN STOCKS[code].target_drop
                     ELSE DefaultTargetDrop,
     base_price |-> price,
     prices |-> <<>>]

TotalObs(d) ==
    LET RECURSIVE Sum(_)
        Sum(S) == IF S = {} THEN 0
                  ELSE LET c == CHOOSE x \in S : TRUE
                       IN  Len(d[c].prices) + Sum(S \ {c})
    IN  Sum(DOMAIN d)

-----------------------------------------------------------------------------
(* AutoStockTracker.add_price *)

\* Mutant of SetBase: the baseline follows every new price.
SetBaseAlways(base_price, price) == price

\* if self.data[code]['base_price'] is None: self.data[code]['base_price'] = price
SetBase(base_price, price) == IF base_price = None THEN price ELSE base_price

\* round((price - base) / base * 100, 2) if base else 0
AutoChangePct(price, base) ==
    IF base # 0 THEN Round(10000 * (price - base), base) ELSE {0}

\* existing = [p for p in prices if p['date'] == date]; update existing[0] or append
Replace(prices, date, price, change_pct) ==
    LET existing == {i \in 1..Len(prices) : prices[i].date = date}
    IN  IF existing # {}
        THEN LET first == CHOOSE i \in existing : \A j \in existing : i <= j
             IN  [prices EXCEPT ![first] = Obs(date, price, change_pct)]
        ELSE prices \o <<Obs(date, price, change_pct)>>

\* The stores add_price(code, price, date) can leave behind.
AutoAddPrice(d, code, price, date) ==
    IF code \notin DOMAIN d
    THEN {d}
    ELSE LET base == SetBase(d[code].base_price, price)
         IN  { [d EXCEPT ![code] =
                    [@ EXCEPT !.base_price = base,
                              !.prices = Replace(@, date, price, chg)]] :
               chg \in AutoChangePct(price, base) }

-----------------------------------------------------------------------------
(* StockTracker.add_price *)

\* _calc_change: round((p - base) / base * 100, 2) when base_price is truthy, else 0
CalcChange(d, code, current_price) ==
    IF code \in DOMAIN d /\ d[code].base_price # None /\ d[code].base_price # 0
    THEN Round(10000 * (current_price - d[code].base_price), d[code].base_price)
    ELSE {0}

ManualAddPrice(d, code, price, date) ==
    LET d1 == IF code \notin DOMAIN d
              THEN [c \in DOMAIN d \cup {code} |->
                        IF c = code THEN NewRecord(code, price) ELSE d[c]]
              ELSE d
    IN  { [d1 EXCEPT ![code] =
               [@ EXCEPT !.prices = Append(@, Obs(date, price, chg))]] :
          chg \in CalcChange(d1, code, price) }

-----------------------------------------------------------------------------
(* The store file *)

NoFile == [status |-> "absent", doc |-> EmptyData]

\* What save_data leaves once json.dump returned and the file is closed.
SavedFile(d) == [status |-> "complete", doc |-> d]

-----------------------------------------------------------------------------
(* Reports *)

NoResult == [kind |-> "none", rows |-> <<>>]

Row(code, base, current, change_pct, target_drop, target_price, distance, status) ==
    [code |-> code, base |-> base, current |-> current, change_pct |-> change_pct,
     target_drop |-> target_drop, target_price |-> target_price,
     distance |-> distance, status |-> status]

\* Mutant of Status: the boundary is exclusive.
StatusStrict(change_pct, target_drop) ==
    IF change_pct < -(100 * target_drop) THEN "buy" ELSE "observe"

\* if change_pct <= -info['target_drop']: 可买 else: 观察
Status(change_pct, target_drop) ==
    IF change_pct <= -(100 * target_drop) THEN "buy" ELSE "observe"

\* Mutant of AutoHasRow: the threshold of plot_charts (fewer than 2 prices) is used.
AutoHasRowTwo(info) == Len(info.prices) >= 2

\* if not info['prices']: continue
AutoHasRow(info) == info.prices # <<>>

\* Mutant of AutoTargetPrice: rounded to 1 decimal, as the distance is.
AutoTargetPriceOneDecimal(base, target_drop) ==
    {10 * t : t \in Round(base * (100 - target_drop), 1000)}

\* round(base * (1 - info['target_drop']/100), 2)
AutoTargetPrice(base, target_drop) == Round(base * (100 - target_drop), 100)

\* round((current - target_price) / target_price * 100, 1) if target_price else 0
AutoDistance(current, target_price) ==
    IF target_price # 0 THEN Round(1000 * (current - target_price), target_price) ELSE {0}

\* The rows generate_report can render for one record that has prices.
AutoRows(code, info) ==
    LET latest == info.prices[Len(info.prices)]
        base == IF info.base_price # None /\ info.base_price # 0
                THEN info.base_price ELSE latest.price
        current == latest.price
        change_pct == latest.change_pct
    IN  UNION { { Row(code, base, current, change_pct, info.target_drop, tp, dist,
                      Status(change_pct, info.target_drop)) :
                  dist \in AutoDistance(current, tp) } :
                tp \in AutoTargetPrice(base, info.target_drop) }

RECURSIVE AutoReportFrom(_, _)
AutoReportFrom(d, i) ==
    IF i > Len(ItemOrder) THEN {<<>>}
    ELSE LET code == ItemOrder[i]
             rest == AutoReportFrom(d, i + 1)
         IN  IF code \notin DOMAIN d \/ ~AutoHasRow(d[code]) THEN rest
             ELSE { <<row>> \o r : row \in AutoRows(code, d[code]), r \in rest }

\* The overview tables generate_report can return.
AutoReport(d) == { [kind |-> "report", rows |-> r] : r \in AutoReportFrom(d, 1) }

\* if not info['prices']: continue
ManualHasRow(info) == info.prices # <<>>

\* target_price = info['base_price'] * (1 - info['target_drop']/100), in 1/100 cent
ManualTargetPrice(info) == info.base_price * (100 - info.target_drop)

\* get_report divides by target_price: a record it cannot render
ManualRaises(info) == ManualHasRow(info) /\ ManualTargetPrice(info) = 0

\* The rows get_report can build for one record that has prices.
ManualRows(code, info) ==
    LET latest == info.prices[Len(info.prices)]
        target_price == ManualTargetPrice(info)
    IN  UNION { { Row(code, info.base_price, latest.price, latest.change_pct,
                      info.target_drop, tp, dist,
                      Status(latest.change_pct, info.target_drop)) :
                  dist \in Round(1000 * (100 * latest.price - target_price), target_price) } :
                tp \in Round(target_price, 100) }

RECURSIVE ManualReportFrom(_, _)
ManualReportFrom(d, i) ==
    IF i > Len(ItemOrder) THEN {<<>>}
    ELSE LET code == ItemOrder[i]
             rest == ManualReportFrom(d, i + 1)
         IN  IF code \notin DOMAIN d \/ ~ManualHasRow(d[code]) THEN rest
             ELSE { <<row>> \o r : row \in ManualRows(code, d[code]), r \in rest }

\* What get_report can return, or the ZeroDivisionError it raises.
ManualReport(d) ==
    IF \E c \in DOMAIN d : ManualRaises(d[c])
    THEN { [kind |-> "raise", rows |-> <<>>] }
    ELSE { [kind |-> "report", rows |-> r] : r \in ManualReportFrom(d, 1) }

-----------------------------------------------------------------------------
(* Calls of the two classes' methods *)

NoCall ==
    [op |-> "none", code |-> "", price |-> None, date |-> 0,
     known |-> FALSE, len |-> 0, dated |-> FALSE]

\* add_price(code, price, date) as it meets the store d.
CallOf(d, code, price, date) ==
    [op |-> "add_price", code |-> code, price |-> price, date |-> date,
     known |-> code \in DOMAIN d,
     len |-> IF code \in DOMAIN d THEN Len(d[code].prices) ELSE 0,
     dated |-> code \in DOMAIN d /\ \E i \in 1..Len(d[code].prices) :
                                        d[code].prices[i].date = date]

Pending == None - 1

NoFetch == [c \in DOMAIN STOCKS |-> Pending]

DailyUnchanged == UNCHANGED <<pc, idx, clock, today, fetched, cycle_start>>

\* AutoStockTracker.add_price called by a user of the class; it returns None.
AutoAdd(codeSet, priceSet, dateSet) ==
    /\ tracker = "auto"
    /\ \E code \in codeSet, price \in priceSet, date \in dateSet :
          /\ data' \in AutoAddPrice(data, code, price, date)
          /\ TotalObs(data') <= MaxObs
          /\ call' = CallOf(data, code, price, date)
    /\ result' = NoResult
    /\ UNCHANGED <<tracker, file>>
    /\ DailyUnchanged

\* StockTracker.add_price: the append, then save_data.
ManualAdd(codeSet, priceSet, dateSet) ==
    /\ tracker = "manual"
    /\ TotalObs(data) < MaxObs
    /\ \E code \in codeSet, price \in priceSet, date \in dateSet :
          /\ data' \in ManualAddPrice(data, code, price, date)
          /\ call' = CallOf(data, code, price, date)
    /\ file' = SavedFile(data')
    /\ result' = NoResult
    /\ UNCHANGED tracker
    /\ DailyUnchanged

AutoAddPriceCall == pc = "api" /\ AutoAdd(CallCodes, Prices, Dates)

ManualAddPriceCall == pc = "api" /\ ManualAdd(CallCodes, Prices, Dates)

\* AutoStockTracker.generate_report
GenerateReport ==
    /\ tracker = "auto"
    /\ pc \in {"api", "row"}
    /\ result' \in AutoReport(data)
    /\ UNCHANGED <<tracker, data, file, call>>
    /\ DailyUnchanged

\* StockTracker.get_report
GetReport ==
    /\ tracker = "manual"
    /\ pc \in {"api", "row"}
    /\ result' \in ManualReport(data)
    /\ UNCHANGED <<tracker, data, file, call>>
    /\ DailyUnchanged

Init ==
    /\ tracker \in {"auto", "manual"}
    /\ data = IF tracker = "auto" THEN SeedData ELSE EmptyData
    /\ file = NoFile
    /\ result = NoResult
    /\ call = NoCall
    /\ pc = "api"
    /\ idx = 0
    /\ clock = 1
    /\ today = 0
    /\ fetched = NoFetch
    /\ cycle_start = data

Next ==
    \/ AutoAddPriceCall
    \/ ManualAddPriceCall
    \/ GenerateReport
    \/ GetReport

Spec == Init /\ [][Next]_vars

\* The same calls, a price of 0 among them.
AutoAddAnyPrice == pc = "api" /\ AutoAdd(CallCodes, AnyPrices, Dates)

ManualAddAnyPrice == pc = "api" /\ ManualAdd(CallCodes, AnyPrices, Dates)

ZeroNext ==
    \/ AutoAddAnyPrice
    \/ ManualAddAnyPrice
    \/ GenerateReport
    \/ GetReport

SpecZero == Init /\ [][ZeroNext]_vars

-----------------------------------------------------------------------------
(* One record observed twice, over a range of prices: the report's arithmetic *)

\* Baselines at which change_pct = -target_drop + 0.01 occurs (341 -> 324, 701 -> 631).
BoundaryBases == {341, 701}

RowBases == (1..MaxBase) \cup BoundaryBases

RowInit ==
    /\ tracker \in {"auto", "manual"}
    /\ \E code \in DOMAIN STOCKS, base \in RowBases :
          /\ data \in (IF tracker = "auto"
                       THEN AutoAddPrice(SeedData, code, base, 1)
                       ELSE ManualAddPrice(EmptyData, code, base, 1))
          /\ call = CallOf(IF tracker = "auto" THEN SeedData ELSE EmptyData, code, base, 1)
    /\ file = IF tracker = "auto" THEN NoFile ELSE SavedFile(data)
    /\ result = NoResult
    /\ pc = "row"
    /\ idx = 0
    /\ clock = 1
    /\ today = 0
    /\ fetched = NoFetch
    /\ cycle_start = data

\* The second day's price, at or below the baseline or one cent above it.
RowPrices(d) == UNION { 1..(d[c].base_price + 1) : c \in {x \in DOMAIN d : d[x].prices # <<>>} }

RowCodes(d) == {c \in DOMAIN d : Len(d[c].prices) = 1}

AutoRowAddPrice == pc = "row" /\ AutoAdd(RowCodes(data), RowPrices(data), {2})

ManualRowAddPrice == pc = "row" /\ ManualAdd(RowCodes(data), RowPrices(data), {2})

RowNext ==
    \/ AutoRowAddPrice
    \/ ManualRowAddPrice
    \/ GenerateReport
    \/ GetReport

SpecRow == RowInit /\ [][RowNext]_vars

-----------------------------------------------------------------------------
(* run_daily of AutoStockTracker, one process after another *)

\* Mutant of UpdateOne: a failed fetch is recorded as a price of 0.
UpdateOneRecordsFailure(d, code, price, date) ==
    AutoAddPrice(d, code, IF price = None THEN 0 ELSE price, date)

\* if price: add_price(code, price, today)   (a failed fetch is None)
UpdateOne(d, code, price, date) ==
    IF price # None /\ price # 0 THEN AutoAddPrice(d, code, price, date) ELSE {d}

\* The first n entries of the document, as json.dump has written them so far.
Written(d, n) == [c \in {StockOrder[i] : i \in 1..n} |-> d[c]]

DailyInit ==
    /\ tracker = "auto"
    /\ data = SeedData
    /\ file = NoFile
    /\ result = NoResult
    /\ call = NoCall
    /\ pc = "idle"
    /\ idx = 0
    /\ clock = 1
    /\ today = 0
    /\ fetched = NoFetch
    /\ cycle_start = SeedData

\* The calendar date moves on.
Tick ==
    /\ pc \in {"idle", "exit"}
    /\ clock < MaxDate
    /\ clock' = clock + 1
    /\ UNCHANGED <<tracker, data, file, result, call, pc, idx, today, fetched, cycle_start>>

\* update_all_prices: today = datetime.now().strftime('%Y-%m-%d')
StartUpdate ==
    /\ pc = "idle"
    /\ today' = clock
    /\ idx' = 1
    /\ fetched' = NoFetch
    /\ cycle_start' = data
    /\ pc' = "fetch"
    /\ UNCHANGED <<tracker, data, file, result, call, clock>>

\* One turn of the loop over STOCKS.items(): fetch_price, then add_price or not.
FetchStep ==
    /\ pc = "fetch"
    /\ \E price \in FetchPrices \cup {None} :
          /\ data' \in UpdateOne(data, StockOrder[idx], price, today)
          /\ fetched' = [fetched EXCEPT ![StockOrder[idx]] = price]
    /\ IF idx < Len(StockOrder)
       THEN idx' = idx + 1 /\ pc' = pc
       ELSE idx' = 0 /\ pc' = "save"
    /\ UNCHANGED <<tracker, file, result, call, clock, today, cycle_start>>

\* save_data: open(self.data_file, 'w') truncates the file.
SaveOpen ==
    /\ pc = "save"
    /\ file' = [status |-> "partial", doc |-> EmptyData]
    /\ idx' = 1
    /\ pc' = "write"
    /\ UNCHANGED <<tracker, data, result, call, clock, today, fetched, cycle_start>>

\* save_data: json.dump writes the next entry of the document.
SaveWrite ==
    /\ pc = "write"
    /\ idx <= Len(StockOrder)
    /\ file' = [status |-> "partial", doc |-> Written(data, idx)]
    /\ idx' = idx + 1
    /\ UNCHANGED <<tracker, data, result, call, pc, clock, today, fetched, cycle_start>>

\* save_data: the document is closed and the with block closes the file.
SaveClose ==
    /\ pc = "write"
    /\ idx > Len(StockOrder)
    /\ file' = SavedFile(data)
    /\ idx' = 0
    /\ pc' = "report"
    /\ UNCHANGED <<tracker, data, result, call, clock, today, fetched, cycle_start>>

\* run_daily: generate_report, after which the process ends.
DailyReport ==
    /\ pc = "report"
    /\ result' \in AutoReport(data)
    /\ pc' = "exit"
    /\ UNCHANGED <<tracker, data, file, call, idx, clock, today, fetched, cycle_start>>

\* main of the next run: AutoStockTracker() and its load_data.
Load ==
    /\ pc = "exit"
    /\ IF file.status = "partial"
       THEN pc' = "corrupt" /\ data' = data
       ELSE /\ pc' = "idle"
            /\ data' = IF file.status = "absent" THEN SeedData ELSE file.doc
    /\ result' = NoResult
    /\ UNCHANGED <<tracker, file, call, idx, clock, today, fetched, cycle_start>>

\* The process is interrupted or killed.
Crash ==
    /\ pc \in {"idle", "fetch", "save", "write", "report"}
    /\ pc' = "exit"
    /\ idx' = 0
    /\ UNCHANGED <<tracker, data, file, result, call, clock, today, fetched, cycle_start>>

BatchStep == FetchStep \/ SaveOpen \/ SaveWrite \/ SaveClose

DailyNext ==
    \/ Tick
    \/ StartUpdate
    \/ FetchStep
    \/ SaveOpen
    \/ SaveWrite
    \/ SaveClose
    \/ DailyReport
    \/ Load

\* The batch is a sequential loop: once started, each of its steps is taken.
SpecDaily == DailyInit /\ [][DailyNext]_vars /\ WF_vars(BatchStep)

CrashNext ==
    \/ DailyNext
    \/ Crash

SpecCrash == DailyInit /\ [][CrashNext]_vars

-----------------------------------------------------------------------------
(* Properties *)

Last(prices) == prices[Len(prices)]

HasObs(d, c) == c \in DOMAIN d /\ d[c].prices # <<>>

RowsOf(c) == {i \in 1..Len(result.rows) : result.rows[i].code = c}

\* C1: same-day upsert is idempotent.  No record holds two observations of one
\* date, and an add_price whose date the record already held leaves the number of
\* observations as it was and stores the call's price for that date.
C1_SameDayUpsertIdempotent ==
    /\ \A c \in DOMAIN data :
          \A i, j \in 1..Len(data[c].prices) :
             i # j => data[c].prices[i].date # data[c].prices[j].date
    /\ (call.op = "add_price" /\ call.dated) =>
          /\ Len(data[call.code].prices) = call.len
          /\ \A i \in 1..Len(data[call.code].prices) :
                data[call.code].prices[i].date = call.date =>
                   data[call.code].prices[i].price = call.price

\* C2: baseline immutability.  Once a record's base_price is set, no step changes
\* it or removes the record, whatever the later price and date.
C2_BaselineImmutable ==
    [][\A c \in DOMAIN data :
          data[c].base_price # None =>
             (c \in DOMAIN data' /\ data'[c].base_price = data[c].base_price)]_vars

\* A backfill (a date earlier than the first stored one) at a price other than the
\* baseline has been recorded.
C2_Witness ==
    /\ call.op = "add_price" /\ call.known /\ call.len >= 1
    /\ data[call.code].base_price # None
    /\ call.price # data[call.code].base_price
    /\ call.date < data[call.code].prices[1].date
    /\ Last(data[call.code].prices).price = call.price

\* C3: the observations of every record are in ascending date order, so the last
\* element, which the report takes as latest, has the greatest date.
C3_ObservationsSorted ==
    \A c \in DOMAIN data :
       \A i, j \in 1..Len(data[c].prices) :
          i < j => data[c].prices[i].date <= data[c].prices[j].date

\* C4: an add_price for a code that was not in the store leaves a record for it,
\* with the watch-list metadata or the 'Unknown' placeholder and the default
\* target_drop, holding the observation; nothing is raised.
C4_UnknownSymbolRecorded ==
    (call.op = "add_price" /\ ~call.known) =>
       /\ result.kind # "raise"
       /\ call.code \in DOMAIN data
       /\ data[call.code].name = NewRecord(call.code, call.price).name
       /\ data[call.code].category = NewRecord(call.code, call.price).category
       /\ data[call.code].target_drop = NewRecord(call.code, call.price).target_drop
       /\ \E i \in 1..Len(data[call.code].prices) :
             /\ data[call.code].prices[i].date = call.date
             /\ data[call.code].prices[i].price = call.price

InBatch == pc \in {"fetch", "save", "write", "report"}

\* C5: partial-failure isolation in update_all_prices.  Within a cycle, a code
\* whose fetch failed has the record it had when the cycle started; a code whose
\* fetch succeeded holds an observation of today at the fetched price; past the
\* loop no code is left unfetched; the file is saved when the cycle ends; and a
\* started batch always reaches its end.
C5_PartialFailureIsolation ==
    /\ [](InBatch =>
            \A c \in DOMAIN STOCKS :
               /\ fetched[c] = None => data[c] = cycle_start[c]
               /\ fetched[c] \in FetchPrices =>
                     \E i \in 1..Len(data[c].prices) :
                        /\ data[c].prices[i].date = today
                        /\ data[c].prices[i].price = fetched[c]
               /\ pc # "fetch" => fetched[c] # Pending
               /\ pc = "report" => file = SavedFile(data))
    /\ ((pc = "fetch") ~> (pc = "report"))

\* A cycle ended in which the first code's fetch failed, the next one's succeeded,
\* and the failing code keeps an observation of an earlier day as its latest.
C5_Witness ==
    /\ pc = "report"
    /\ fetched["1398.HK"] = None
    /\ fetched["0882.HK"] \in FetchPrices
    /\ data["1398.HK"].prices # <<>>
    /\ Last(data["1398.HK"].prices).date < today
    /\ Last(data["0882.HK"].prices).date = today

\* C6: save is atomic.  At every point the store file is absent (never saved) or
\* holds a complete document, never an empty or half-written one.
C6_SaveAtomic == file.status \in {"absent", "complete"}

\* C7: a zero divisor is raised, never coerced.  No observation is stored on a
\* record whose base_price is zero, and no report row is rendered with a zero
\* target price.
C7_ZeroDivisorRaised ==
    /\ \A c \in DOMAIN data : data[c].base_price = 0 => data[c].prices = <<>>
    /\ result.kind = "report" =>
          \A i \in 1..Len(result.rows) : result.rows[i].target_price # 0

\* C8: signal classification with inclusive boundary.  In a report, the row of a
\* record is marked buy exactly when the latest observation's change_pct is at
\* most minus target_drop, observe otherwise, and a record with no observation
\* has no row.
C8_SignalClassification ==
    result.kind = "report" =>
       /\ \A i \in 1..Len(result.rows) :
             LET r == result.rows[i]
                 latest == Last(data[r.code].prices)
                 limit == -(100 * data[r.code].target_drop)
             IN  /\ r.status \in {"buy", "observe"}
                 /\ r.status = "buy" <=> latest.change_pct <= limit
       /\ \A c \in DOMAIN data : data[c].prices = <<>> => RowsOf(c) = {}

\* A report row whose change_pct equals minus target_drop is marked buy.
C8_Witness ==
    /\ result.kind = "report"
    /\ \E i \in 1..Len(result.rows) :
          /\ result.rows[i].change_pct = -(100 * result.rows[i].target_drop)
          /\ result.rows[i].status = "buy"

\* A report row whose change_pct is minus target_drop plus 0.01 is marked observe.
C8_WitnessAbove ==
    /\ result.kind = "report"
    /\ \E i \in 1..Len(result.rows) :
          /\ result.rows[i].change_pct = -(100 * result.rows[i].target_drop) + 1
          /\ result.rows[i].status = "observe"

\* C9: report completeness.  A report holds exactly one row for every code with
\* at least one observation and none for any other code.
C9_ReportCompleteness ==
    result.kind = "report" =>
       \A c \in Codes :
          Cardinality(RowsOf(c)) = IF HasObs(data, c) THEN 1 ELSE 0

\* A report of one row over a store that also holds a record without observations.
C9_Witness ==
    /\ result.kind = "report"
    /\ Len(result.rows) = 1
    /\ \E c \in DOMAIN data : data[c].prices = <<>>

====
